---- MODULE Spec2Model ----
(***************************************************************************)
(* Model of the Dashboard component's strategy advisor (analysis) and      *)
(* projection engine (projection), src/unnamed/part_000 lines 14-168.      *)
(*                                                                         *)
(* JavaScript numbers are modelled as fixed-point integers: an amount x    *)
(* currency units is the integer x * Scale.  Interest is the only          *)
(* operation with a non-integer result; it is truncated to 1/Scale.        *)
(* Math.round is modelled on that representation (Round).                  *)
(* One render of the component is a run Render, (ApplyInterest,            *)
(* PayMinimums, PayExtra, EmitPoint)*, Finish; between renders the user    *)
(* may press a strategy button (SetStrategy) or the parent may pass new    *)
(* props (PropsChange).                                                    *)
(***************************************************************************)
EXTENDS Integers, Sequences, FiniteSets, TLC

\* ---------------------------------------------------------------- bounds
\* resolution of the fixed-point representation: 1 currency unit = Scale
Scale == 100
\* longest debt list passed to the component
MaxDebts == 2

\* ------------------------------------------------------- program constants
maxMonths == 60

\* ---------------------------------------------------------------- inputs
\* A debt record of data.debts. hasRate = FALSE models an absent interestRate.
Debt(n, amt, hr, r, mp) ==
  [name |-> n, currentAmount |-> amt * Scale, hasRate |-> hr,
   interestRate |-> r, minPayment |-> mp * Scale]

\* The debts the lists are drawn from (amounts in currency units).
DebtPool ==
  { Debt("A12k", 12000, TRUE, 0, 500),   \* Scenario A
    Debt("A", 1000, TRUE, 60, 100),      \* Scenario B/C, debt A
    Debt("B", 5000, TRUE, 10, 100),      \* Scenario B/C, debt B (balance 5000)
    Debt("A2", 1000, TRUE, 60, 100),     \* twin of A: ties on rate and balance
    Debt("R40", 4999, TRUE, 40, 200),    \* rate 40, balance 4999
    [Debt("R41", 6000, TRUE, 41, 100)    \* rate 41, balance 6000.25
       EXCEPT !.currentAmount = @ + Scale \div 4],
    Debt("Z", 0, TRUE, 99, 50),          \* already paid, highest rate
    Debt("L", 6000, FALSE, 0, 100) }     \* no rate, 60 minimums of 100

\* sequences of distinct debts of the pool, of length at most n
RECURSIVE ListsUpTo(_)
ListsUpTo(n) ==
  IF n = 0 THEN { <<>> }
  ELSE LET prev == ListsUpTo(n - 1)
       IN prev \cup { Append(l, d) : l \in { p \in prev : Len(p) = n - 1 },
                                     d \in DebtPool }

Range(s) == { s[i] : i \in 1..Len(s) }

DebtLists ==
  { l \in ListsUpTo(MaxDebts) : Cardinality({ d.name : d \in Range(l) }) = Len(l) }

Incomes == { 100 * Scale, 400 * Scale, 1000 * Scale }
Expenses == { 0, 400 * Scale }

Strategies == { "snowball", "avalanche" }

\* ---------------------------------------------------------------- state
VARIABLES
  debts,              \* data.debts (caller-owned)
  totalIncome,        \* sum of data.incomes
  totalExpenses,      \* sum of data.expenses
  strategy,           \* useState: "none" (null), "snowball" or "avalanche"
  analysis,           \* result of the analysis memo of the last render
  pc,                 \* position in the render
  simDebts,           \* the engine's copy of the debts
  month,
  currentTotalDebt,
  accumulatedWealth,
  monthlyBudget,
  targetDebt,         \* name of the month's extra-payment target, or "none"
  extraPayment,       \* the month's extra payment
  projectionData,     \* the points
  projection          \* the memo's result

vars == << debts, totalIncome, totalExpenses, strategy, analysis, pc, simDebts,
           month, currentTotalDebt, accumulatedWealth, monthlyBudget,
           targetDebt, extraPayment, projectionData, projection >>

\* ---------------------------------------------------------------- helpers
Min(a, b) == IF a <= b THEN a ELSE b
Max(a, b) == IF a >= b THEN a ELSE b

\* Math.round on the fixed-point representation: nearest unit, halves up
Round(x) == ((2 * x + Scale) \div (2 * Scale)) * Scale

\* d.interestRate || 0
Rate(d) == IF d.hasRate THEN d.interestRate ELSE 0

RECURSIVE SumAmounts(_)
SumAmounts(ds) ==
  IF ds = <<>> THEN 0 ELSE ds[1].currentAmount + SumAmounts(Tail(ds))

RECURSIVE SumMinPayments(_)
SumMinPayments(ds) ==
  IF ds = <<>> THEN 0 ELSE ds[1].minPayment + SumMinPayments(Tail(ds))

totalDebt == SumAmounts(debts)
totalMinPayments == SumMinPayments(debts)
availableMoney == totalIncome - totalExpenses - totalMinPayments
paymentCapacity == availableMoney + totalMinPayments

\* mutant: paid debts are not filtered out
ActiveDebtsUnfiltered(ds) == ds

\* filter(d => d.currentAmount > 0)
ActiveDebts(ds) == SelectSeq(ds, LAMBDA d : d.currentAmount > 0)

\* the two comparators handed to Array.prototype.sort
CompareFn(by, a, b) ==
  IF by = "snowball" THEN a.currentAmount - b.currentAmount
  ELSE Rate(b) - Rate(a)

\* Array.prototype.sort (stable): insertion after every element not greater
\* mutant: an unstable sort, an element is put before its equals
RECURSIVE InsertBeforeEquals(_, _, _)
InsertBeforeEquals(x, s, by) ==
  IF s = <<>> THEN << x >>
  ELSE IF CompareFn(by, s[1], x) < 0
       THEN << s[1] >> \o InsertBeforeEquals(x, Tail(s), by)
       ELSE << x >> \o s

RECURSIVE InsertSorted(_, _, _)
InsertSorted(x, s, by) ==
  IF s = <<>> THEN << x >>
  ELSE IF CompareFn(by, s[1], x) <= 0
       THEN << s[1] >> \o InsertSorted(x, Tail(s), by)
       ELSE << x >> \o s

RECURSIVE SortDebts(_, _)
SortDebts(s, by) ==
  IF s = <<>> THEN <<>>
  ELSE InsertSorted(s[Len(s)], SortDebts(SubSeq(s, 1, Len(s) - 1), by), by)

NoDebt == [name |-> "none", currentAmount |-> 0, hasRate |-> FALSE,
           interestRate |-> 0, minPayment |-> 0]

NoAnalysis == [recommended |-> "none", maxInterestDebt |-> NoDebt,
               minBalanceDebt |-> NoDebt]

\* mutant: the rate threshold is inclusive
RecommendInclusive(maxInterest, minBalance) ==
  IF maxInterest >= 40 THEN "avalanche"
  ELSE IF minBalance < 5000 * Scale THEN "snowball"
  ELSE "avalanche"

\* the decision of the analysis memo: first match wins
Recommend(maxInterest, minBalance) ==
  IF maxInterest > 40 THEN "avalanche"
  ELSE IF minBalance < 5000 * Scale THEN "snowball"
  ELSE "avalanche"

\* the analysis memo
Analysis(ds) ==
  LET activeDebts == ActiveDebts(ds)
  IN IF Len(activeDebts) = 0 THEN NoAnalysis
     ELSE LET maxInterestDebt == SortDebts(activeDebts, "avalanche")[1]
              minBalanceDebt == SortDebts(activeDebts, "snowball")[1]
              maxInterest == Rate(maxInterestDebt)
          IN [recommended |-> Recommend(maxInterest, minBalanceDebt.currentAmount),
              maxInterestDebt |-> maxInterestDebt,
              minBalanceDebt |-> minBalanceDebt]

\* strategy || analysis?.recommended || 'avalanche'
CurrentStrategy(st, an) ==
  IF st # "none" THEN st
  ELSE IF an.recommended # "none" THEN an.recommended
  ELSE "avalanche"

currentStrategy == CurrentStrategy(strategy, analysis)

getPriorityDebt ==
  LET activeDebts == ActiveDebts(debts)
  IN IF Len(activeDebts) = 0 THEN NoDebt
     ELSE SortDebts(activeDebts, currentStrategy)[1]

\* ------------------------------------------------------- projection engine
\* mutant: the annual rate is applied every month
ApplyAnnualRate(d) ==
  IF d.currentAmount > 0 /\ d.hasRate /\ d.interestRate # 0
  THEN [d EXCEPT !.currentAmount = @ + (@ * d.interestRate) \div 100]
  ELSE d

\* 1. Apply Interest, for one debt
ApplyInterestTo(d) ==
  IF d.currentAmount > 0 /\ d.hasRate /\ d.interestRate # 0
  THEN [d EXCEPT !.currentAmount = @ + (@ * d.interestRate) \div 1200]
  ELSE d

\* mutant: the minimum is paid in full, not capped by the balance
MinimumPaymentUncapped(d, budget) ==
  IF d.currentAmount > 0 THEN d.minPayment ELSE 0

\* 2. Pay Minimums first: the payment one debt receives
MinimumPayment(d, budget) ==
  IF d.currentAmount > 0 THEN Min(d.currentAmount, d.minPayment) ELSE 0

\* the forEach of step 2: the debts and the budget after the pass
RECURSIVE PayMinimumsPass(_, _)
PayMinimumsPass(ds, budget) ==
  IF ds = <<>> THEN [debts |-> <<>>, budget |-> budget]
  ELSE LET payment == MinimumPayment(ds[1], budget)
           rest == PayMinimumsPass(Tail(ds), budget - payment)
       IN [debts |-> << [ds[1] EXCEPT !.currentAmount = @ - payment] >> \o rest.debts,
           budget |-> rest.budget]

\* mutant: the strategy is ignored, the highest rate is always the target
SelectTargetIgnoresStrategy(activeDebts, strat) ==
  SortDebts(activeDebts, "avalanche")[1]

\* 3. the target of the extra payment among the active debts
SelectTarget(activeDebts, strat) ==
  IF strat = "snowball" THEN SortDebts(activeDebts, "snowball")[1]
  ELSE SortDebts(activeDebts, "avalanche")[1]

\* mutant: the whole leftover budget is applied, not capped by the balance
ExtraPaymentWholeBudget(target, budget) == budget

\* Math.min(targetDebt.currentAmount, monthlyBudget)
ExtraPaymentFor(target, budget) == Min(target.currentAmount, budget)

\* targetDebt.currentAmount -= extraPayment (the target is an element of simDebts)
PayTarget(ds, target, amount) ==
  [i \in 1..Len(ds) |->
     IF ds[i].name = target.name
     THEN [ds[i] EXCEPT !.currentAmount = @ - amount]
     ELSE ds[i]]

\* mutant: the horizon cap is not tested
LoopCondNoCap(total, m) == total > 0 \/ m < 12

\* mutant: one more month is simulated after the twelfth
LoopCondThirteen(total, m) == (total > 0 \/ m <= 12) /\ m < maxMonths

\* mutant: the twelve-month minimum is not tested
LoopCondNoMinimum(total, m) == total > 0 /\ m < maxMonths

\* the condition of the while loop
LoopCond(total, m) == (total > 0 \/ m < 12) /\ m < maxMonths

\* mutant: the leftover is added without testing that it is positive
LeftoverUnguarded(total, budget) ==
  IF total = 0 THEN budget ELSE 0

\* mutant: the leftover is added without testing that the debt is gone
LeftoverAlways(total, budget) ==
  IF budget > 0 THEN budget ELSE 0

\* wealth added by the "budget left" test after the total is recomputed
LeftoverToWealth(total, budget) ==
  IF total = 0 /\ budget > 0 THEN budget ELSE 0

\* projectionData.find(p => p.deuda === 0)?.index || maxMonths
RECURSIVE FindZero(_, _)
FindZero(points, i) ==
  IF i > Len(points) THEN 0
  ELSE IF points[i].deuda = 0 THEN i
  ELSE FindZero(points, i + 1)

\* mutant: the index of the last point is taken
DebtFreeMonthLastPoint(points) == points[Len(points)].index

DebtFreeMonth(points) ==
  LET i == FindZero(points, 1)
  IN IF i = 0 THEN maxMonths
     ELSE IF points[i].index = 0 THEN maxMonths
     ELSE points[i].index

\* mutant: simDebts holds the caller's own objects (no copy is taken)
CallerDebtsShared(callerDebts, sim) == sim

\* let simDebts = data.debts.map(d => ({...d})): the engine writes to fresh
\* objects, so the caller's debts after a write to simDebts are what they were
CallerDebtsAfterWrite(callerDebts, sim) == callerDebts

\* mutant: the early return is missing
ReturnsNullNever(total) == FALSE

\* if (totalDebt === 0) return null
ReturnsNull(total) == total = 0

NoProjection == [isNull |-> TRUE, debtFreeInMonths |-> 0]

\* ---------------------------------------------------------------- actions
\* the memos and the engine's locals before a render has evaluated them
Unrendered ==
  /\ analysis = NoAnalysis
  /\ pc = "render"
  /\ simDebts = <<>>
  /\ month = 0
  /\ currentTotalDebt = 0
  /\ accumulatedWealth = 0
  /\ monthlyBudget = 0
  /\ targetDebt = "none"
  /\ extraPayment = 0
  /\ projectionData = <<>>
  /\ projection = NoProjection

\* a state change discards the memos' values and the engine's locals
Rerender ==
  /\ analysis' = NoAnalysis
  /\ pc' = "render"
  /\ simDebts' = <<>>
  /\ month' = 0
  /\ currentTotalDebt' = 0
  /\ accumulatedWealth' = 0
  /\ monthlyBudget' = 0
  /\ targetDebt' = "none"
  /\ extraPayment' = 0
  /\ projectionData' = <<>>
  /\ projection' = NoProjection

Init ==
  /\ debts \in DebtLists
  /\ totalIncome \in Incomes
  /\ totalExpenses \in Expenses
  /\ strategy = "none"
  /\ Unrendered

\* The render evaluates the analysis memo and enters the projection memo:
\* null when totalDebt is 0, otherwise the clone, the locals and the seed point.
Render ==
  /\ pc = "render"
  /\ analysis' = Analysis(debts)
  /\ month' = 0
  /\ accumulatedWealth' = 0
  /\ monthlyBudget' = 0
  /\ targetDebt' = "none"
  /\ extraPayment' = 0
  /\ projection' = NoProjection
  /\ IF ReturnsNull(totalDebt)
     THEN /\ pc' = "done"
          /\ simDebts' = <<>>
          /\ currentTotalDebt' = 0
          /\ projectionData' = <<>>
     ELSE /\ pc' = "loop"
          /\ simDebts' = debts
          /\ currentTotalDebt' = totalDebt
          /\ projectionData' = << [deuda |-> totalDebt, riqueza |-> 0, index |-> 0] >>
  /\ UNCHANGED << debts, totalIncome, totalExpenses, strategy >>

\* loop test passes: month++, the budget is reset, interest is applied
ApplyInterest ==
  /\ pc = "loop"
  /\ LoopCond(currentTotalDebt, month)
  /\ month' = month + 1
  /\ monthlyBudget' = paymentCapacity
  /\ simDebts' = [i \in 1..Len(simDebts) |-> ApplyInterestTo(simDebts[i])]
  /\ targetDebt' = "none"
  /\ extraPayment' = 0
  /\ pc' = "min"
  /\ UNCHANGED << totalIncome, totalExpenses, strategy, analysis,
                  currentTotalDebt, accumulatedWealth, projectionData, projection >>
  /\ debts' = CallerDebtsAfterWrite(debts, simDebts')

PayMinimums ==
  /\ pc = "min"
  /\ LET r == PayMinimumsPass(simDebts, monthlyBudget)
     IN /\ simDebts' = r.debts
        /\ monthlyBudget' = r.budget
  /\ pc' = "extra"
  /\ UNCHANGED << totalIncome, totalExpenses, strategy, analysis, month,
                  currentTotalDebt, accumulatedWealth, targetDebt, extraPayment,
                  projectionData, projection >>
  /\ debts' = CallerDebtsAfterWrite(debts, simDebts')

PayExtra ==
  /\ pc = "extra"
  /\ LET activeDebts == ActiveDebts(simDebts)
     IN IF monthlyBudget > 0
        THEN IF Len(activeDebts) > 0
             THEN LET target == SelectTarget(activeDebts, currentStrategy)
                      extra == ExtraPaymentFor(target, monthlyBudget)
                  IN /\ targetDebt' = target.name
                     /\ extraPayment' = extra
                     /\ simDebts' = PayTarget(simDebts, target, extra)
                     /\ monthlyBudget' = monthlyBudget - extra
                     /\ UNCHANGED accumulatedWealth
             ELSE /\ accumulatedWealth' = accumulatedWealth + monthlyBudget
                  /\ UNCHANGED << simDebts, monthlyBudget, targetDebt, extraPayment >>
        ELSE UNCHANGED << simDebts, monthlyBudget, targetDebt, extraPayment,
                          accumulatedWealth >>
  /\ pc' = "emit"
  /\ UNCHANGED << totalIncome, totalExpenses, strategy, analysis, month,
                  currentTotalDebt, projectionData, projection >>
  /\ debts' = CallerDebtsAfterWrite(debts, simDebts')

\* the total is recomputed, leftover budget goes to wealth, the point is pushed
EmitPoint ==
  /\ pc = "emit"
  /\ LET total == SumAmounts(simDebts)
         wealth == accumulatedWealth + LeftoverToWealth(total, monthlyBudget)
     IN /\ currentTotalDebt' = total
        /\ accumulatedWealth' = wealth
        /\ projectionData' = Append(projectionData,
             [deuda |-> Max(0, Round(total)), riqueza |-> Round(wealth),
              index |-> month])
  /\ pc' = "loop"
  /\ UNCHANGED << debts, totalIncome, totalExpenses, strategy, analysis, simDebts,
                  month, monthlyBudget, targetDebt, extraPayment, projection >>

\* loop test fails: debtFreeMonth and the returned object
Finish ==
  /\ pc = "loop"
  /\ ~LoopCond(currentTotalDebt, month)
  /\ projection' = [isNull |-> FALSE, debtFreeInMonths |-> DebtFreeMonth(projectionData)]
  /\ pc' = "done"
  /\ UNCHANGED << debts, totalIncome, totalExpenses, strategy, analysis, simDebts,
                  month, currentTotalDebt, accumulatedWealth, monthlyBudget,
                  targetDebt, extraPayment, projectionData >>

\* a strategy button is pressed; the buttons are rendered only with a priority
\* debt, available money and an analysis
SetStrategy(s) ==
  /\ pc = "done"
  /\ getPriorityDebt # NoDebt
  /\ availableMoney > 0
  /\ analysis # NoAnalysis
  /\ strategy' = s
  /\ Rerender
  /\ UNCHANGED << debts, totalIncome, totalExpenses >>

\* the parent passes new data (a debt added or removed, new incomes or
\* expenses); the strategy state is kept, the memos are recomputed
RemoveAt(s, i) == SubSeq(s, 1, i - 1) \o SubSeq(s, i + 1, Len(s))

PropsChange ==
  /\ pc = "done"
  /\ \/ /\ \E d \in DebtPool : debts' = Append(debts, d)
        /\ debts' \in DebtLists
        /\ UNCHANGED << totalIncome, totalExpenses >>
     \/ /\ \E i \in 1..Len(debts) : debts' = RemoveAt(debts, i)
        /\ UNCHANGED << totalIncome, totalExpenses >>
     \/ /\ totalIncome' \in Incomes
        /\ totalExpenses' \in Expenses
        /\ UNCHANGED debts
  /\ Rerender
  /\ UNCHANGED strategy

Next ==
  \/ Render
  \/ ApplyInterest
  \/ PayMinimums
  \/ PayExtra
  \/ EmitPoint
  \/ Finish
  \/ \E s \in Strategies : SetStrategy(s)
  \/ PropsChange

Spec == Init /\ [][Next]_vars

\* ---------------------------------------------------------------- claims
Rendered == pc = "done"
AllZero(ds) == \A i \in 1..Len(ds) : ds[i].currentAmount = 0

\* C1: after the minimum-payment pass of any month the remaining monthly
\* budget is not negative (for a budget that starts non-negative): the pass
\* never pays more than the budget still remaining.
C1_MinimumsWithinBudget ==
  (pc = "extra" /\ paymentCapacity >= 0) => monthlyBudget >= 0

\* position of the first point whose deuda is 0, or 0 when there is none
FirstZeroPos(points) ==
  IF \E i \in 1..Len(points) : points[i].deuda = 0
  THEN CHOOSE i \in 1..Len(points) :
         /\ points[i].deuda = 0
         /\ \A j \in 1..(i - 1) : points[j].deuda # 0
  ELSE 0

\* C2: for consecutive points that both come after the first point with
\* total debt 0, the later wealth is the earlier wealth plus exactly the
\* monthly budget (stated for a non-negative budget).
C2_WealthConservation ==
  LET z == FirstZeroPos(projectionData)
  IN (z > 0 /\ paymentCapacity >= 0) =>
       \A i \in (z + 1)..(Len(projectionData) - 1) :
          projectionData[i + 1].riqueza = projectionData[i].riqueza + paymentCapacity

C4_HorizonCap ==
  /\ month <= maxMonths
  /\ Len(projectionData) <= maxMonths + 1
  /\ (pc = "loop" /\ month = maxMonths) => ~LoopCond(currentTotalDebt, month)
  /\ pc \in {"min", "extra", "emit"} => Len(projectionData) = month
  /\ (pc = "loop" \/ (Rendered /\ ~projection.isNull)) => Len(projectionData) = month + 1

\* a budget too small to ever extinguish the debt: the run ends at month 60
\* with 61 points and debt remaining
C4_Witness ==
  /\ Rendered
  /\ month = maxMonths
  /\ currentTotalDebt > SumAmounts(debts)
  /\ Len(projectionData) = maxMonths + 1

\* the debts of the list with a positive balance, as a set
PositiveDebts(ds) == { d \in Range(ds) : d.currentAmount > 0 }
MaxRateOf(S) == CHOOSE r \in { Rate(d) : d \in S } : \A d \in S : Rate(d) <= r
MinBalanceOf(S) ==
  CHOOSE b \in { d.currentAmount : d \in S } : \A d \in S : b <= d.currentAmount

\* C5: with at least one active debt the recommendation is avalanche if the
\* highest rate among active debts is > 40, otherwise snowball if the lowest
\* balance among active debts is < 5000, otherwise avalanche; a rate of
\* exactly 40 and a balance of exactly 5000 do not trigger rules 1 and 2.
C5_RecommendationPolicy ==
  (pc # "render" /\ PositiveDebts(debts) # {}) =>
     LET maxRate == MaxRateOf(PositiveDebts(debts))
         minBal == MinBalanceOf(PositiveDebts(debts))
     IN /\ maxRate > 40 => analysis.recommended = "avalanche"
        /\ (maxRate <= 40 /\ minBal < 5000 * Scale) => analysis.recommended = "snowball"
        /\ (maxRate <= 40 /\ minBal >= 5000 * Scale) => analysis.recommended = "avalanche"

\* the highest active rate is exactly 40 and rule 2 decides
C5_Witness ==
  /\ pc # "render"
  /\ PositiveDebts(debts) # {}
  /\ MaxRateOf(PositiveDebts(debts)) = 40
  /\ analysis.recommended = "snowball"

\* the list without its zero-balance debts
WithoutPaid(ds) == SelectSeq(ds, LAMBDA d : d.currentAmount # 0)

\* C6: the advisor returns no recommendation exactly when no debt has a
\* positive balance; the debts it names have a positive balance, and the
\* result is the one it gives for the list without the zero-balance debts.
C6_NoneIffNoActiveDebt ==
  pc # "render" =>
     /\ (analysis = NoAnalysis) <=> (PositiveDebts(debts) = {})
     /\ analysis # NoAnalysis =>
          /\ analysis.maxInterestDebt \in PositiveDebts(debts)
          /\ analysis.minBalanceDebt \in PositiveDebts(debts)
     /\ analysis = Analysis(WithoutPaid(debts))

\* a paid debt with the highest rate of the list stands before an active one
C6_Witness ==
  /\ pc # "render"
  /\ Len(debts) = 2
  /\ debts[1].currentAmount = 0
  /\ Rate(debts[1]) > Rate(debts[2])
  /\ analysis.maxInterestDebt = debts[2]

\* position in ds of the debt the strategy designates: among the debts with a
\* positive balance, the smallest balance (snowball) or the highest rate
\* (avalanche), the first in list order among equals
ExpectedTargetPos(ds, strat) ==
  CHOOSE i \in 1..Len(ds) :
    /\ ds[i].currentAmount > 0
    /\ \A j \in 1..Len(ds) : ds[j].currentAmount > 0 =>
         IF strat = "snowball"
         THEN /\ ds[i].currentAmount <= ds[j].currentAmount
              /\ ds[i].currentAmount = ds[j].currentAmount => i <= j
         ELSE /\ Rate(ds[i]) >= Rate(ds[j])
              /\ Rate(ds[i]) = Rate(ds[j]) => i <= j

\* C7: in a month with leftover budget > 0 after the minimums and a debt with
\* positive balance, the extra-payment target is the smallest positive balance
\* (snowball) or the highest rate, a missing rate counting 0 (avalanche), as
\* the balances stand after that month's interest and minimums; ties go to
\* the first debt in input order.
C7_TargetSelection ==
  [][ (pc = "extra" /\ monthlyBudget > 0 /\ PositiveDebts(simDebts) # {}) =>
        targetDebt' = simDebts[ExpectedTargetPos(simDebts, currentStrategy)].name ]_vars

\* snowball has paid a debt although an earlier debt of the list, still
\* unpaid, has a higher rate
C7_Witness ==
  /\ pc = "emit"
  /\ currentStrategy = "snowball"
  /\ extraPayment > 0
  /\ \E i, j \in 1..Len(simDebts) :
       /\ simDebts[i].name = targetDebt
       /\ j < i
       /\ simDebts[j].currentAmount > 0
       /\ Rate(simDebts[j]) > Rate(simDebts[i])

ScenarioB ==
  /\ debts = << Debt("A", 1000, TRUE, 60, 100), Debt("B", 5000, TRUE, 10, 100) >>
  /\ paymentCapacity = 400 * Scale
  /\ currentStrategy = "avalanche"

\* C8: the extra-payment step of a month changes at most one debt; that debt
\* loses min(its balance, leftover budget), which is also what leaves the
\* budget; with leftover budget and an unpaid debt exactly one debt is paid.
\* In Scenario B the month-1 extra payment is 200, all of it to A.
C8_SingleExtraPayment ==
  [][ pc = "extra" =>
        LET changed == { i \in 1..Len(simDebts) : simDebts'[i] # simDebts[i] }
        IN /\ Len(simDebts') = Len(simDebts)
           /\ Cardinality(changed) <= 1
           /\ \A i \in changed :
                /\ simDebts[i].currentAmount - simDebts'[i].currentAmount
                     = Min(simDebts[i].currentAmount, monthlyBudget)
                /\ monthlyBudget - monthlyBudget'
                     = Min(simDebts[i].currentAmount, monthlyBudget)
                /\ simDebts'[i] = [simDebts[i] EXCEPT !.currentAmount = simDebts'[i].currentAmount]
           /\ (monthlyBudget > 0 /\ PositiveDebts(simDebts) # {}) => Cardinality(changed) = 1
           /\ changed = {} => monthlyBudget' = monthlyBudget
           /\ (ScenarioB /\ month = 1) =>
                /\ changed = {1}
                /\ simDebts[1].currentAmount - simDebts'[1].currentAmount = 200 * Scale ]_vars

\* the target was paid off, budget is left over and another debt is unpaid
C8_Witness ==
  /\ pc = "emit"
  /\ extraPayment > 0
  /\ monthlyBudget > 0
  /\ PositiveDebts(simDebts) # {}
  /\ \E i \in 1..Len(simDebts) :
       simDebts[i].name = targetDebt /\ simDebts[i].currentAmount = 0

ScenarioA ==
  /\ debts = << Debt("A12k", 12000, TRUE, 0, 500) >>
  /\ paymentCapacity = 1000 * Scale

\* C9 as stated: in Scenario A debtFreeMonthIndex is 12, point 12 has total
\* debt 0 and wealth 0, and a point 13 exists with wealth 1000.
C9_ScenarioAWithMonth13 ==
  (Rendered /\ ScenarioA) =>
     /\ projection.debtFreeInMonths = 12
     /\ \E i \in 1..Len(projectionData) :
          /\ projectionData[i].index = 12
          /\ projectionData[i].deuda = 0
          /\ projectionData[i].riqueza = 0
     /\ \E i \in 1..Len(projectionData) :
          /\ projectionData[i].index = 13
          /\ projectionData[i].riqueza = 1000 * Scale

\* C9 amended: in Scenario A debtFreeMonthIndex is 12, point 12 has total
\* debt 0 and wealth 0, and it is the last point: no point 13 exists.
C9_ScenarioAEndsAtMonth12 ==
  (Rendered /\ ScenarioA) =>
     /\ ~projection.isNull
     /\ projection.debtFreeInMonths = 12
     /\ Len(projectionData) = 13
     /\ projectionData[13] = [deuda |-> 0, riqueza |-> 0, index |-> 12]
     /\ \A i \in 1..Len(projectionData) : projectionData[i].index # 13

C9_Witness ==
  /\ Rendered
  /\ ScenarioA
  /\ month = 12
  /\ currentTotalDebt = 0

HasZeroPoint(points) == \E i \in 1..Len(points) : points[i].deuda = 0

\* C10 as stated: debtFreeMonthIndex is the index of the first point with
\* total debt 0, and it is 60 exactly when no point has total debt 0
\* (looked at for non-negative budgets).
C10_DebtFreeIndexExactly ==
  (Rendered /\ ~projection.isNull /\ paymentCapacity >= 0) =>
     /\ HasZeroPoint(projectionData) =>
          projection.debtFreeInMonths
            = projectionData[FirstZeroPos(projectionData)].index
     /\ (projection.debtFreeInMonths = maxMonths) <=> ~HasZeroPoint(projectionData)

\* C10 amended: debtFreeMonthIndex is the index of the first point with total
\* debt 0 when there is one, and 60 when no point has total debt 0 (it is 60
\* too when the first such point is the one of month 60).
C10_DebtFreeIndex ==
  (Rendered /\ ~projection.isNull) =>
     /\ HasZeroPoint(projectionData) =>
          projection.debtFreeInMonths
            = projectionData[FirstZeroPos(projectionData)].index
     /\ ~HasZeroPoint(projectionData) => projection.debtFreeInMonths = maxMonths
     /\ (projection.debtFreeInMonths = maxMonths /\ HasZeroPoint(projectionData)) =>
          FirstZeroPos(projectionData) = maxMonths + 1

\* the debt is extinguished in month 60: the index is 60 and a point has
\* total debt 0
C10_Witness ==
  /\ Rendered
  /\ ~projection.isNull
  /\ projection.debtFreeInMonths = maxMonths
  /\ HasZeroPoint(projectionData)

\* C11: a negative monthly budget is rejected before any month is simulated:
\* no month is simulated and no point is produced for it.
C11_NegativeBudgetRejected ==
  paymentCapacity < 0 => (month = 0 /\ projectionData = <<>>)

C13_AdvisorTieBreak ==
  (pc # "render" /\ PositiveDebts(debts) # {}) =>
     /\ analysis.maxInterestDebt = debts[ExpectedTargetPos(debts, "avalanche")]
     /\ analysis.minBalanceDebt = debts[ExpectedTargetPos(debts, "snowball")]

\* two active debts share the maximal rate and the minimal balance; the first
\* of the list is named for both
C13_Witness ==
  /\ pc # "render"
  /\ Len(debts) = 2
  /\ debts[1].currentAmount > 0
  /\ debts[1].currentAmount = debts[2].currentAmount
  /\ Rate(debts[1]) = Rate(debts[2])
  /\ analysis.maxInterestDebt = debts[1]
  /\ analysis.minBalanceDebt = debts[1]

\* C14: wealth never decreases over the simulated months, whatever the
\* monthly budget (zero and negative included): each point's wealth is at
\* least the previous point's, and so is the running total behind it.
C14_WealthMonotone ==
  /\ \A i \in 1..(Len(projectionData) - 1) :
       projectionData[i + 1].riqueza >= projectionData[i].riqueza
  /\ accumulatedWealth >= 0
  /\ Len(projectionData) > 0 =>
       Round(accumulatedWealth) >= projectionData[Len(projectionData)].riqueza

\* a month ended with the debt gone and a negative budget left over: nothing
\* was taken from wealth
C14_Witness ==
  /\ pc = "loop"
  /\ paymentCapacity < 0
  /\ currentTotalDebt = 0
  /\ monthlyBudget < 0
  /\ Len(projectionData) >= 2
  /\ accumulatedWealth = 0

\* C15: the simulation runs min(60, max(12, m)) months, m being the first
\* month that ends with total debt 0: a month is entered only if the previous
\* one ended with debt or was before the twelfth, and never after the
\* sixtieth; the run ends only at month 60 or at a month >= 12 that ended
\* with total debt 0; a total of 0 stays 0 for the rest of the run.
C15_MonthsSimulated ==
  /\ [](pc \in {"min", "extra", "emit"} =>
          /\ month <= maxMonths
          /\ currentTotalDebt > 0 \/ month <= 12)
  /\ []((Rendered /\ ~projection.isNull) =>
          /\ month >= 12
          /\ month = maxMonths \/ currentTotalDebt = 0
          /\ Len(projectionData) = month + 1)
  /\ [][ (pc = "emit" /\ currentTotalDebt = 0 /\ month > 1)
           => currentTotalDebt' = 0 ]_vars

\* the debt was gone before month 12 and the run went on through month 12
C15_Witness ==
  /\ Rendered
  /\ month = 12
  /\ \E i \in 1..Len(projectionData) :
       projectionData[i].index < 12 /\ projectionData[i].deuda = 0

\* interest of one month on a balance at an annual percentage
MonthlyInterest(balance, rate) == (balance * rate) \div 1200

\* C16: the interest step adds balance * (rate/100) / 12, computed on the
\* balance at the start of the month, to every debt with positive balance
\* and positive rate and leaves the others unchanged; the minimum payments
\* of the month are taken from the balances so increased.
C16_InterestBeforePayments ==
  [][ /\ (pc = "loop" /\ pc' = "min") =>
           /\ Len(simDebts') = Len(simDebts)
           /\ \A i \in 1..Len(simDebts) :
                simDebts'[i] =
                  IF simDebts[i].currentAmount > 0 /\ Rate(simDebts[i]) > 0
                  THEN [simDebts[i] EXCEPT !.currentAmount =
                          @ + MonthlyInterest(@, Rate(simDebts[i]))]
                  ELSE simDebts[i]
      /\ (pc = "min" /\ pc' = "extra") =>
           \A i \in 1..Len(simDebts) :
              simDebts'[i].currentAmount =
                simDebts[i].currentAmount
                  - Min(Max(simDebts[i].currentAmount, 0), simDebts[i].minPayment) ]_vars

\* after the interest step of month 1 a debt with a rate has grown and a
\* debt without a rate has its starting balance
C16_Witness ==
  /\ pc = "min"
  /\ month = 1
  /\ Len(simDebts) = 2
  /\ \E i, j \in 1..2 :
       /\ simDebts[i].currentAmount > debts[i].currentAmount
       /\ ~simDebts[j].hasRate
       /\ simDebts[j].currentAmount > 0
       /\ simDebts[j].currentAmount = debts[j].currentAmount

LastPoint == projectionData[Len(projectionData)]

\* C17: at the end of the month in which the last positive balance is
\* extinguished, wealth has grown (from 0) by exactly the part of the month's
\* budget that was not paid to debts, counted once.
C17_PayoffMonthLeftoverOnce ==
  ( /\ pc = "loop"
    /\ month >= 1
    /\ currentTotalDebt = 0
    /\ projectionData[Len(projectionData) - 1].deuda > 0
    /\ monthlyBudget >= 0 )
  => accumulatedWealth = monthlyBudget

\* C18: while a debt still has a positive balance at the end of a month,
\* wealth is 0: at every such point, and in the running total behind it.
C18_NoWealthWhileInDebt ==
  /\ (pc = "loop" /\ currentTotalDebt > 0) =>
        (accumulatedWealth = 0 /\ LastPoint.riqueza = 0)
  /\ \A i \in 1..Len(projectionData) :
        projectionData[i].deuda > 0 => projectionData[i].riqueza = 0

\* a month has ended with debt remaining and budget unspent
C18_Witness ==
  /\ pc = "loop"
  /\ month >= 1
  /\ currentTotalDebt > 0
  /\ monthlyBudget > 0
  /\ accumulatedWealth = 0

\* C19: every point, the seed included, has its position as index and a
\* totalDebt that is the sum of the balances at that moment rounded to the
\* nearest unit and floored at 0, hence a non-negative whole number.
C19_PointsIndexedAndRounded ==
  /\ \A i \in 1..Len(projectionData) :
       /\ projectionData[i].index = i - 1
       /\ projectionData[i].deuda >= 0
       /\ projectionData[i].deuda % Scale = 0
  /\ Len(projectionData) > 0 =>
       projectionData[1].deuda = Max(0, Round(SumAmounts(debts)))
  /\ (pc = "loop" /\ month >= 1) =>
       LastPoint.deuda = Max(0, Round(SumAmounts(simDebts)))

\* C20: with non-negative balances, rates and minimum payments every
\* simulated balance is >= 0 at every step of every month, whatever the
\* budget: no payment exceeds the balance it is applied to.
C20_BalancesNonNegative ==
  /\ \A i \in 1..Len(simDebts) : simDebts[i].currentAmount >= 0
  /\ extraPayment >= 0
  /\ pc \in {"extra", "emit"} => SumAmounts(simDebts) >= 0

\* under a negative budget the minimum pass has paid a last balance that was
\* smaller than the minimum payment
C20_Witness ==
  /\ pc = "extra"
  /\ paymentCapacity < 0
  /\ Len(simDebts) = 1
  /\ simDebts[1].currentAmount = 0
  /\ paymentCapacity - monthlyBudget > 0
  /\ paymentCapacity - monthlyBudget < simDebts[1].minPayment

\* C21: the priority debt the dashboard shows (getPriorityDebt, from the
\* caller's current balances under the current strategy) is the debt that
\* receives the extra payment of the first simulated month, whenever that
\* month has leftover budget and a debt with positive balance.
C21_PriorityDebtIsFirstTarget ==
  (pc = "emit" /\ month = 1 /\ targetDebt # "none") =>
     getPriorityDebt.name = targetDebt

====
